---- MODULE Spec2Model ----
(***************************************************************************)
(* A model of SortedList (src/sorted_list.py): a list subclass that keeps   *)
(* its items in ascending order under `<`.                                  *)
(*                                                                          *)
(* Items are records [k, t]: `<` compares the key k and ignores the tag t,  *)
(* so that items equal under the ordering stay distinguishable.             *)
(* Positions are Python's, counted from 0; a TLA+ sequence s holds the item *)
(* at position i in s[i + 1].                                               *)
(* An optional argument (a slice's start, stop, step; index's stop) is      *)
(* None (the empty tuple) or Some(i) (a one-element tuple). A subscript is  *)
(* Idx(i) or Slice(start, stop, step).                                      *)
(* Every method is an operator from the list's contents and the arguments   *)
(* to an outcome [err, self, ret]: the exception raised ("none" when the    *)
(* call returns), the list's contents after the call, the value returned.   *)
(* A returned value is NoneV, IntV(n), BoolV(b), ItemV(e), ListV(s) (a new  *)
(* list, by its contents) or RefV(r) (an existing list, by its object).     *)
(***************************************************************************)
EXTENDS Integers, Sequences, FiniteSets, TLC

\* ------------------------------------------------------------------ bounds
MaxKey == 1
MaxTag == 1
MaxLen == 3
MaxItems == 2
MaxOff == 2
MaxStep == 2
MaxTimes == 2
CopyLen == 2

\* ------------------------------------------------------------------- items
Elem == [k : 0..MaxKey, t : 0..MaxTag]

\* The items' `<`.
Lt(a, b) == a.k < b.k

None == << >>
Some(i) == << i >>
Idx(i) == [slice |-> FALSE, i |-> i]
Slice(start, stop, step) ==
    [slice |-> TRUE, start |-> start, stop |-> stop, step |-> step]

Min(a, b) == IF a < b THEN a ELSE b
Max(a, b) == IF a < b THEN b ELSE a

SeqsUpTo(S, n) == UNION { [1..m -> S] : m \in 0..n }

\* ------------------------------------------------------- the built-in list
\* self[i] for an integer i: Python counts a negative i from the end.
InRange(s, i) == -Len(s) <= i /\ i < Len(s)
Pos(s, i) == IF i < 0 THEN i + Len(s) ELSE i
Get(s, i) == s[Pos(s, i) + 1]

\* del self[i], i in range.
ListDel(s, i) == SubSeq(s, 1, Pos(s, i)) \o SubSeq(s, Pos(s, i) + 2, Len(s))

\* list.insert(self, i, x) for i >= 0: a position past the end appends.
ListInsert(s, i, x) ==
    LET p == Min(i, Len(s))
    IN SubSeq(s, 1, p) \o << x >> \o SubSeq(s, p + 1, Len(s))

\* list.sort(self): ascending and stable. Computed by repeatedly taking out
\* the first item that no other item is less than.
FirstMin(s) == CHOOSE i \in 1..Len(s) :
    /\ \A j \in 1..Len(s) : ~Lt(s[j], s[i])
    /\ \A j \in 1..(i - 1) : \E h \in 1..Len(s) : Lt(s[h], s[j])

RECURSIVE Sort(_)
Sort(s) ==
    IF s = << >> THEN << >>
    ELSE LET i == FirstMin(s)
         IN << s[i] >> \o Sort(SubSeq(s, 1, i - 1) \o SubSeq(s, i + 1, Len(s)))

\* slice(start, stop, step).indices(n), step not 0: << start, stop, step >>.
SliceIndices(start, stop, step, n) ==
    LET st == IF step = None THEN 1 ELSE step[1]
        lower == IF st < 0 THEN -1 ELSE 0
        upper == IF st < 0 THEN n - 1 ELSE n
        Clamp(v, dflt) ==
            IF v = None THEN dflt
            ELSE IF v[1] < 0 THEN Max(v[1] + n, lower)
            ELSE Min(v[1], upper)
    IN << Clamp(start, IF st < 0 THEN upper ELSE lower),
          Clamp(stop, IF st < 0 THEN lower ELSE upper),
          st >>

\* The positions range(start, stop, step) runs through, in its order.
RangeLen(start, stop, step) ==
    IF step > 0
    THEN (IF start < stop THEN ((stop - start - 1) \div step) + 1 ELSE 0)
    ELSE (IF stop < start THEN ((start - stop - 1) \div (-step)) + 1 ELSE 0)

RangeSeq(start, stop, step) ==
    [ j \in 1..RangeLen(start, stop, step) |-> start + (j - 1) * step ]

NoneV == [none |-> TRUE]
IntV(n) == [int |-> n]
BoolV(b) == [bool |-> b]
ItemV(e) == [item |-> e]
ListV(s) == [list |-> s]
RefV(r) == [ref |-> r]

Raise(e, s) == [err |-> e, self |-> s, ret |-> NoneV]
Ok(s, v) == [err |-> "none", self |-> s, ret |-> v]

\* list.__setitem__(self, i, item), i an integer.
ListSetItem(s, i, item) ==
    IF InRange(s, i) THEN Ok([s EXCEPT ![Pos(s, i) + 1] = item], NoneV)
    ELSE Raise("IndexError", s)

\* list.__setitem__(self, slice, items): a slice of step 1 is replaced by
\* the items whatever their number; any other step needs as many items as
\* it selects positions.
ListSetSlice(s, sl, items) ==
    IF sl.step = Some(0) THEN Raise("ValueError", s)
    ELSE
      LET ind == SliceIndices(sl.start, sl.stop, sl.step, Len(s))
          sel == RangeSeq(ind[1], ind[2], ind[3])
      IN IF ind[3] = 1
         THEN Ok(SubSeq(s, 1, ind[1]) \o items
                   \o SubSeq(s, Max(ind[2], ind[1]) + 1, Len(s)), NoneV)
         ELSE IF Len(sel) # Len(items) THEN Raise("ValueError", s)
         ELSE Ok([ i \in 1..Len(s) |->
                     IF \E j \in 1..Len(sel) : sel[j] = i - 1
                     THEN items[CHOOSE j \in 1..Len(sel) : sel[j] = i - 1]
                     ELSE s[i] ], NoneV)

\* ------------------------------------------------------------------ bisect
\* bisect.bisect_left(a, x, lo, hi) and bisect.bisect_right(a, x, lo, hi) for
\* lo >= 0. The C implementation reads hi = -1 as "no hi given": len(a).
RECURSIVE BisectLeftLoop(_, _, _, _)
BisectLeftLoop(a, x, lo, hi) ==
    IF lo < hi
    THEN LET mid == (lo + hi) \div 2
         IN IF Lt(a[mid + 1], x)
            THEN BisectLeftLoop(a, x, mid + 1, hi)
            ELSE BisectLeftLoop(a, x, lo, mid)
    ELSE lo

BisectLeft(a, x, lo, hi) ==
    BisectLeftLoop(a, x, lo, IF hi = -1 THEN Len(a) ELSE hi)

RECURSIVE BisectRightLoop(_, _, _, _)
BisectRightLoop(a, x, lo, hi) ==
    IF lo < hi
    THEN LET mid == (lo + hi) \div 2
         IN IF Lt(x, a[mid + 1])
            THEN BisectRightLoop(a, x, lo, mid)
            ELSE BisectRightLoop(a, x, mid + 1, hi)
    ELSE lo

BisectRight(a, x, lo, hi) ==
    BisectRightLoop(a, x, lo, IF hi = -1 THEN Len(a) ELSE hi)

\* ------------------------------------------------------ SortedList methods
\* SortedList(items)
__init__(items) == IF items # << >> THEN Sort(items) ELSE << >>

\* self.extend(items)
extend(s, items) ==
    LET all == s \o items
        n == Len(s) - Len(all)
    IN IF n # -1
       THEN Ok(IF n # 0 THEN Sort(all) ELSE all, NoneV)
       ELSE LET item == all[Len(all)]
                rest == SubSeq(all, 1, Len(all) - 1)
            IN Ok(ListInsert(rest, BisectRight(rest, item, 0, Len(rest)), item),
                  NoneV)

\* self[index]: an item, or for a slice a new list, filled by extend from
\* itertools.islice, which takes no negative step.
__getitem__(s, index) ==
    IF ~index.slice
    THEN (IF InRange(s, index.i) THEN Ok(s, ItemV(Get(s, index.i)))
          ELSE Raise("IndexError", s))
    ELSE IF index.step = Some(0) THEN Raise("ValueError", s)
    ELSE
      LET ind == SliceIndices(index.start, index.stop, index.step, Len(s))
          sel == RangeSeq(ind[1], ind[2], ind[3])
      IN IF ind[3] < 0 THEN Raise("ValueError", s)
         ELSE Ok(s, ListV(extend(<< >>, [ j \in 1..Len(sel) |-> s[sel[j] + 1] ]).self))

\* item in self
__contains__(s, item) ==
    LET i == BisectLeft(s, item, 0, Len(s))
    IN Ok(s, BoolV(i # Len(s) /\ ~Lt(item, s[i + 1])))

\* The end of __setitem__: the item was written at position i of a list that
\* now has n items; move it left or right when a neighbour is out of order
\* with it.
Repair(s, i, item) ==
    LET n == Len(s)
    IN IF i # 0 /\ ~InRange(s, i - 1) THEN Raise("IndexError", s)
       ELSE IF i # 0 /\ Lt(item, Get(s, i - 1))
       THEN IF ~InRange(s, i) THEN Raise("IndexError", s)
            ELSE LET d == ListDel(s, i)
                 IN Ok(ListInsert(d, BisectRight(d, item, 0, i), item), NoneV)
       ELSE IF i + 1 # n /\ ~InRange(s, i + 1) THEN Raise("IndexError", s)
       ELSE IF i + 1 # n /\ Lt(Get(s, i + 1), item)
       THEN IF ~InRange(s, i) THEN Raise("IndexError", s)
            ELSE LET d == ListDel(s, i)
                 IN Ok(ListInsert(d, BisectLeft(d, item, i, n - 1), item), NoneV)
       ELSE Ok(s, NoneV)

\* self[index] = item: for a slice, item is the sequence of the new items.
__setitem__(s, index, item) ==
    IF index.slice
    THEN LET w == ListSetSlice(s, index, item)
             n == Len(item)
         IN IF w.err # "none" THEN w
            ELSE IF n # 1 THEN Ok(IF n # 0 THEN Sort(w.self) ELSE w.self, NoneV)
            ELSE Repair(w.self,
                        SliceIndices(index.start, index.stop, index.step,
                                     Len(w.self))[1],
                        item[1])
    ELSE LET w == ListSetItem(s, index.i, item)
         IN IF w.err # "none" THEN w
            ELSE Repair(w.self, index.i % Len(w.self), item)

\* self + other: other is a list (isList) or another sequence, such as a
\* tuple, for which __add__ returns NotImplemented and Python raises TypeError.
__add__(s, other, isList) ==
    IF ~isList THEN Raise("TypeError", s)
    ELSE
      LET result == s \o other
          n == Len(result) - Len(s)
      IN IF n = 1
         THEN LET item == result[Len(result)]
                  rest == SubSeq(result, 1, Len(result) - 1)
              IN Ok(s, ListV(ListInsert(rest, BisectRight(rest, item, 0, Len(rest)),
                                         item)))
         ELSE Ok(s, ListV(IF n # 0 THEN Sort(result) ELSE result))

\* self.__iadd__(items): the method ends without a return statement.
__iadd__(s, items) ==
    LET all == s \o items
        n == Len(s) - Len(all)
    IN IF n # -1
       THEN Ok(IF n # 0 THEN Sort(all) ELSE all, NoneV)
       ELSE LET item == all[Len(all)]
                rest == SubSeq(all, 1, Len(all) - 1)
            IN Ok(ListInsert(rest, BisectRight(rest, item, 0, Len(rest)), item),
                  NoneV)

\* Each item of s n times over, in the order of s; none when n <= 0
\* (itertools.repeat(item, n) for item in s, chained).
RECURSIVE Repeat(_, _)
Repeat(s, n) ==
    IF s = << >> THEN << >>
    ELSE [ j \in 1..Max(n, 0) |-> Head(s) ] \o Repeat(Tail(s), n)

\* self * n: n is Some(k) for an integer k and None for a value that is not
\* an integer, which itertools.repeat refuses with TypeError once the first
\* item reaches it; an empty list never gets that far.
__mul__(s, n) ==
    IF n = None /\ s # << >> THEN Raise("TypeError", s)
    ELSE Ok(s, ListV(IF n = None THEN << >> ELSE Repeat(s, n[1])))

\* n * self
__rmul__(s, n) == __mul__(s, n)

\* self.__imul__(n): list.__init__ empties the list before it reads the
\* first item, so a TypeError leaves the list empty; the method ends without
\* a return statement.
__imul__(s, n) ==
    IF n = None /\ s # << >> THEN Raise("TypeError", << >>)
    ELSE Ok(IF n = None THEN << >> ELSE Repeat(s, n[1]), NoneV)

\* self.index(item, start, stop): stop is None when the caller gives none.
index(s, item, start, stop) ==
    LET n == Len(s)
        hi == IF stop = None THEN n ELSE Min(n, stop[1])
    IN IF start < 0 THEN Raise("ValueError", s)
       ELSE LET i == BisectLeft(s, item, start, hi)
            IN IF i = n THEN Raise("ValueError", s)
               ELSE IF ~InRange(s, i) THEN Raise("IndexError", s)
               ELSE IF Lt(item, s[i + 1]) THEN Raise("ValueError", s)
               ELSE Ok(s, IntV(i))

\* self.count(item)
count(s, item) ==
    LET i == BisectLeft(s, item, 0, Len(s))
    IN IF i = Len(s) \/ Lt(item, s[i + 1]) THEN Ok(s, IntV(0))
       ELSE Ok(s, IntV(BisectRight(s, item, 0, Len(s)) - i))

\* self.copy(): the contents of the new list
copy(s) == Ok(s, ListV(s))

\* self.insert(...), self.reverse(), self.sort(): the attributes are None,
\* and calling None raises TypeError.
insert(s) == Raise("TypeError", s)

\* append with the leftmost insertion point: the new item goes before its equals.
appendLeft(s, item) == Ok(ListInsert(s, BisectLeft(s, item, 0, Len(s)), item), NoneV)

\* self.append(item)
append(s, item) == Ok(ListInsert(s, BisectRight(s, item, 0, Len(s)), item), NoneV)

\* self.remove(item)
remove(s, item) ==
    LET i == BisectLeft(s, item, 0, Len(s))
    IN IF i = Len(s) \/ Lt(item, s[i + 1]) THEN Raise("ValueError", s)
       ELSE Ok(ListDel(s, i), NoneV)

\* self.pop(i), del self[...] and self.clear(), inherited from list
pop(s, i) ==
    IF InRange(s, i) THEN Ok(ListDel(s, i), ItemV(Get(s, i))) ELSE Raise("IndexError", s)

\* del self[i] or del self[start:stop:step]: for a slice, the positions it selects are taken out.
__delitem__(s, sub) ==
    IF ~sub.slice
    THEN (IF InRange(s, sub.i) THEN Ok(ListDel(s, sub.i), NoneV)
          ELSE Raise("IndexError", s))
    ELSE IF sub.step = Some(0) THEN Raise("ValueError", s)
    ELSE
      LET ind == SliceIndices(sub.start, sub.stop, sub.step, Len(s))
          sel == RangeSeq(ind[1], ind[2], ind[3])
          Kept(p) == \A j \in 1..Len(sel) : sel[j] # p
          keep == { p \in 0..(Len(s) - 1) : Kept(p) }
          RECURSIVE Take(_)
          Take(p) == IF p >= Len(s) THEN << >>
                     ELSE (IF p \in keep THEN << s[p + 1] >> ELSE << >>) \o Take(p + 1)
      IN Ok(Take(0), NoneV)

clear(s) == Ok(<< >>, NoneV)

\* ------------------------------------------------------------ the program
(***************************************************************************)
(* heap    the lists that exist, by object: each one's contents             *)
(* dup     the object the name dup is bound to ("None" before a copy); the  *)
(*         name orig is bound to obj1 throughout                            *)
(* pc      "ready" for the next call, or "returned" from the last one       *)
(* last    the last call: method, the name it was made through, arguments,  *)
(*         the exception raised ("none" if none) and the value returned     *)
(* before  the heap as the last call found it                               *)
(* src     the source sequence of the build scenario                        *)
(***************************************************************************)
VARIABLES heap, dup, pc, last, before, src

vars == << heap, dup, pc, last, before, src >>

Names == { "orig", "dup" }
Deref(nm) == IF nm = "orig" THEN "obj1" ELSE dup

NoArgs == [none |-> TRUE]

NoCall == [op |-> "none", name |-> "orig", args |-> NoArgs, err |-> "none",
           ret |-> NoneV]

Items == SeqsUpTo(Elem, MaxItems)
Indices == -(MaxLen + 1) .. MaxLen
Offsets == { None } \cup { Some(i) : i \in -MaxOff .. MaxOff }
Steps == { None } \cup { Some(i) : i \in -MaxStep .. MaxStep }
Starts == -1 .. (MaxLen + 1)
Times == { None } \cup { Some(i) : i \in -1 .. MaxTimes }
Stops == { None } \cup { Some(i) : i \in -MaxOff .. MaxLen }

Init ==
    /\ heap = [obj1 |-> __init__(<< >>)]
    /\ dup = "None"
    /\ pc = "ready"
    /\ last = NoCall
    /\ before = heap
    /\ src = << >>

\* A call of method op through the name nm, with outcome out. A list grows to
\* MaxLen items at most.
Call(nm, op, args, out) ==
    /\ pc = "ready"
    /\ Deref(nm) # "None"
    /\ Len(out.self) <= MaxLen
    /\ heap' = [heap EXCEPT ![Deref(nm)] = out.self]
    /\ before' = heap
    /\ last' = [op |-> op, name |-> nm, args |-> args,
                err |-> out.err, ret |-> out.ret]
    /\ pc' = "returned"
    /\ UNCHANGED << dup, src >>

Self(nm) == heap[Deref(nm)]

\* orig = SortedList(items)
Construct(items) ==
    /\ pc = "ready"
    /\ heap' = [heap EXCEPT !.obj1 = __init__(items)]
    /\ before' = heap
    /\ last' = [op |-> "init", name |-> "orig", args |-> [items |-> items],
                err |-> "none", ret |-> NoneV]
    /\ pc' = "returned"
    /\ UNCHANGED << dup, src >>

AppendCall(nm, item) ==
    Call(nm, "append", [item |-> item], append(Self(nm), item))

ExtendCall(nm, items) ==
    Call(nm, "extend", [items |-> items], extend(Self(nm), items))

\* c = nm; c += items: Python binds c to what __iadd__ returns, which is ret.
IAddCall(nm, items) ==
    Call(nm, "iadd", [items |-> items], __iadd__(Self(nm), items))

RemoveCall(nm, item) ==
    Call(nm, "remove", [item |-> item], remove(Self(nm), item))

PopCall(nm, i) ==
    Call(nm, "pop", [i |-> i], pop(Self(nm), i))

DelItemCall(nm, i) ==
    Call(nm, "delitem", [i |-> i], __delitem__(Self(nm), Idx(i)))

DelSliceCall(nm, sl) ==
    Call(nm, "del_slice", [sl |-> sl], __delitem__(Self(nm), sl))

ClearCall(nm) ==
    Call(nm, "clear", NoArgs, clear(Self(nm)))

MulCall(nm, n) ==
    Call(nm, "mul", [n |-> n], __mul__(Self(nm), n))

RMulCall(nm, n) ==
    Call(nm, "rmul", [n |-> n], __rmul__(Self(nm), n))

\* c = nm; c *= n: Python binds c to what __imul__ returns, which is ret.
IMulCall(nm, n) ==
    Call(nm, "imul", [n |-> n], __imul__(Self(nm), n))

SetAtCall(nm, i, item) ==
    Call(nm, "set_at", [i |-> i, item |-> item],
         __setitem__(Self(nm), Idx(i), item))

SetSliceCall(nm, sl, items) ==
    Call(nm, "set_slice", [sl |-> sl, items |-> items],
         __setitem__(Self(nm), sl, items))

AtCall(nm, i) ==
    Call(nm, "at", [i |-> i], __getitem__(Self(nm), Idx(i)))

SliceCall(nm, sl) ==
    Call(nm, "slice", [sl |-> sl], __getitem__(Self(nm), sl))

ContainsCall(nm, item) ==
    Call(nm, "contains", [item |-> item], __contains__(Self(nm), item))

IndexCall(nm, item, start, stop) ==
    Call(nm, "index", [item |-> item, start |-> start, stop |-> stop],
         index(Self(nm), item, start, stop))

CountCall(nm, item) ==
    Call(nm, "count", [item |-> item], count(Self(nm), item))

ConcatCall(nm, other, isList) ==
    Call(nm, "concat", [other |-> other, isList |-> isList],
         __add__(Self(nm), other, isList))

InsertCall(nm) ==
    Call(nm, "insert", NoArgs, insert(Self(nm)))

\* A copy that hands out the list itself: dup and orig name one object.
CopyCallShared ==
    /\ pc = "ready"
    /\ dup' = "obj1"
    /\ last' = [op |-> "copy", name |-> "orig", args |-> NoArgs,
                err |-> "none", ret |-> RefV("obj1")]
    /\ before' = heap
    /\ pc' = "returned"
    /\ UNCHANGED << heap, src >>

\* dup = orig.copy(): the new list is a new object.
CopyCall ==
    /\ pc = "ready"
    /\ LET out == copy(heap.obj1)
       IN /\ heap' = [r \in DOMAIN heap \cup { "obj2" } |->
                        IF r = "obj2" THEN out.ret.list ELSE heap[r]]
          /\ dup' = "obj2"
          /\ last' = [op |-> "copy", name |-> "orig", args |-> NoArgs,
                      err |-> out.err, ret |-> RefV("obj2")]
    /\ before' = heap
    /\ pc' = "returned"
    /\ UNCHANGED src

\* The caller goes on to its next call.
Return ==
    /\ pc = "returned"
    /\ pc' = "ready"
    /\ last' = NoCall
    /\ before' = heap
    /\ UNCHANGED << heap, dup, src >>

Next ==
    \/ pc = "ready" /\ \E items \in Items : Construct(items)
    \/ pc = "ready" /\ \E item \in Elem : AppendCall("orig", item)
    \/ pc = "ready" /\ \E items \in Items : ExtendCall("orig", items)
    \/ pc = "ready" /\ \E items \in Items : IAddCall("orig", items)
    \/ pc = "ready" /\ \E item \in Elem : RemoveCall("orig", item)
    \/ pc = "ready" /\ \E i \in Indices : PopCall("orig", i)
    \/ pc = "ready" /\ \E i \in Indices : DelItemCall("orig", i)
    \/ pc = "ready" /\ \E i \in Indices, item \in Elem : SetAtCall("orig", i, item)
    \/ pc = "ready" /\ \E a \in Offsets, b \in Offsets, c \in Steps, items \in Items :
          SetSliceCall("orig", Slice(a, b, c), items)
    \/ pc = "ready" /\ \E i \in Indices : AtCall("orig", i)
    \/ pc = "ready" /\ \E a \in Offsets, b \in Offsets, c \in Steps :
          SliceCall("orig", Slice(a, b, c))
    \/ pc = "ready" /\ \E item \in Elem : ContainsCall("orig", item)
    \/ pc = "ready" /\ \E item \in Elem, start \in Starts, stop \in Stops :
          IndexCall("orig", item, start, stop)
    \/ pc = "ready" /\ \E item \in Elem : CountCall("orig", item)
    \/ pc = "ready" /\ \E other \in Items, isList \in BOOLEAN :
          ConcatCall("orig", other, isList)
    \/ pc = "ready" /\ InsertCall("orig")
    \/ pc = "ready" /\ \E a \in Offsets, b \in Offsets, c \in Steps :
          DelSliceCall("orig", Slice(a, b, c))
    \/ pc = "ready" /\ ClearCall("orig")
    \/ pc = "ready" /\ \E n \in Times : MulCall("orig", n)
    \/ pc = "ready" /\ \E n \in Times : RMulCall("orig", n)
    \/ pc = "ready" /\ \E n \in Times : IMulCall("orig", n)
    \/ Return

Spec == Init /\ [][Next]_vars

\* ------------------------------------------------- the build scenario
\* A source sequence is appended item by item, in its order, to SortedList().
BuildInit ==
    /\ src \in SeqsUpTo(Elem, MaxLen)
    /\ heap = [obj1 |-> __init__(<< >>)]
    /\ dup = "None"
    /\ pc = "ready"
    /\ last = NoCall
    /\ before = heap

BuildAppend ==
    /\ pc = "ready"
    /\ Len(heap.obj1) < Len(src)
    /\ AppendCall("orig", src[Len(heap.obj1) + 1])

BuildNext ==
    \/ BuildAppend
    \/ Return

SpecBuild == BuildInit /\ [][BuildNext]_vars

\* -------------------------------------------------- the copy scenario
\* orig is copied to dup, and both are mutated through either name. The
\* items carry tag 0 and the lists grow to CopyLen items at most.
CopyElem == { e \in Elem : e.t = 0 }
CopyItems == { << >> } \cup { << x >> : x \in CopyElem }
                 \cup { << x, y >> : x \in CopyElem, y \in CopyElem }
CopyIndices == -(CopyLen + 1) .. CopyLen
CopyOffsets == { None, Some(-1), Some(1) }
CopySteps == { None, Some(-1) }

CopyBounded == \A r \in DOMAIN heap : Len(heap[r]) <= CopyLen

CopyNext ==
    \/ pc = "ready" /\ (\E items \in CopyItems : Construct(items)) /\ CopyBounded'
    \/ pc = "ready" /\ CopyCall
    \/ pc = "ready" /\ (\E nm \in Names, item \in CopyElem : AppendCall(nm, item))
          /\ CopyBounded'
    \/ pc = "ready" /\ (\E nm \in Names, items \in CopyItems : ExtendCall(nm, items))
          /\ CopyBounded'
    \/ pc = "ready" /\ (\E nm \in Names, items \in CopyItems : IAddCall(nm, items))
          /\ CopyBounded'
    \/ pc = "ready" /\ \E nm \in Names, item \in CopyElem : RemoveCall(nm, item)
    \/ pc = "ready" /\ \E nm \in Names, i \in CopyIndices : PopCall(nm, i)
    \/ pc = "ready" /\ \E nm \in Names, i \in CopyIndices : DelItemCall(nm, i)
    \/ pc = "ready" /\ \E nm \in Names, i \in CopyIndices, item \in CopyElem :
          SetAtCall(nm, i, item)
    \/ pc = "ready"
          /\ (\E nm \in Names, a \in CopyOffsets, b \in CopyOffsets,
                 c \in CopySteps, items \in CopyItems :
                 SetSliceCall(nm, Slice(a, b, c), items))
          /\ CopyBounded'
    \/ pc = "ready"
          /\ \E nm \in Names, a \in CopyOffsets, b \in CopyOffsets, c \in CopySteps :
                 DelSliceCall(nm, Slice(a, b, c))
    \/ pc = "ready" /\ \E nm \in Names : ClearCall(nm)
    \/ pc = "ready" /\ (\E nm \in Names, n \in Times : IMulCall(nm, n))
          /\ CopyBounded'
    \/ Return

SpecCopy == Init /\ [][CopyNext]_vars

\* ------------------------------------------------------------- properties
Equal(a, b) == ~Lt(a, b) /\ ~Lt(b, a)

Sorted(s) == \A i \in 1..Len(s), j \in 1..Len(s) : i < j => ~Lt(s[j], s[i])

Occurrences(s, e) == Cardinality({ i \in 1..Len(s) : s[i] = e })
SameItems(a, b) == \A e \in Elem : Occurrences(a, e) = Occurrences(b, e)

Distinct(s) == \A i \in 1..Len(s), j \in 1..Len(s) : i # j => s[i] # s[j]
Range(s) == { s[i] : i \in 1..Len(s) }
Place(s, e) == CHOOSE p \in 1..Len(s) : s[p] = e

Returned(op) == pc = "returned" /\ last.op = op
\* The list the last call was made on, as the call found it and as it left it.
Was == before[Deref(last.name)]
Now == heap[Deref(last.name)]

Mutators == { "append", "extend", "iadd", "remove", "pop", "delitem",
              "set_at", "set_slice", "del_slice", "clear", "imul" }

\* C1. Sortedness: whatever calls were made, no item of a list is less than
\* an item before it.
C1_Sortedness == \A r \in DOMAIN heap : Sorted(heap[r])

\* C2. No partial mutation on failure: a call that raises leaves every list
\* exactly as it found it.
C2_NoPartialMutation ==
    (pc = "returned" /\ last.err # "none") => heap = before

\* C3. index(item, start, stop): a returned position lies in [start, stop),
\* holds an item equal to item, and is the first such position of the range;
\* and when the range holds no equal item the call raises ValueError.
C3_IndexOf ==
    Returned("index") =>
      LET s == Was
          item == last.args.item
          start == last.args.start
          stop == IF last.args.stop = None THEN Len(s) ELSE last.args.stop[1]
          hits == { p \in 0..(Len(s) - 1) :
                      start <= p /\ p < stop /\ Equal(s[p + 1], item) }
      IN /\ last.err = "none" =>
              (last.ret.int \in hits /\ \A q \in hits : last.ret.int <= q)
         /\ hits = {} => last.err = "ValueError"

\* C4. count(x) is the number of items equal to x; when index(x) succeeds
\* these items are the count(x) positions from index(x) on; and x in self
\* is true exactly when count(x) > 0.
C4_Count ==
    Returned("count") =>
      LET s == Was
          x == last.args.item
          hits == { p \in 0..(Len(s) - 1) : Equal(s[p + 1], x) }
          first == index(s, x, 0, None)
      IN /\ last.err = "none"
         /\ last.ret = IntV(Cardinality(hits))
         /\ first.err = "none" =>
              hits = { p \in 0..(Len(s) - 1) :
                         first.ret.int <= p /\ p < first.ret.int + last.ret.int }
         /\ __contains__(s, x).ret.bool <=> last.ret.int > 0

\* C5. Stability of insertion: append, extend, += and + put every new item
\* after the items already present that are equal to it, and keep the items
\* already present in their order. Stated for items that are all different,
\* so that each has one place in the result.
C5_Stability ==
    (pc = "returned" /\ last.op \in { "append", "extend", "iadd", "concat" }
       /\ last.err = "none") =>
      LET old == Was
          new == IF last.op = "append" THEN << last.args.item >>
                 ELSE IF last.op = "concat" THEN last.args.other
                 ELSE last.args.items
          res == IF last.op = "concat" THEN last.ret.list ELSE Now
          IsOld(e) == e \in Range(old)
      IN Distinct(old \o new) =>
           /\ SelectSeq(res, IsOld) = old
           /\ \A x \in Range(new), y \in Range(old) :
                 Equal(x, y) => Place(res, y) < Place(res, x)

\* C6. Appending the items of a source one at a time, in the source's order,
\* to an empty list ends with the sequence that SortedList(source) holds.
C6_AppendsEqualConstruct ==
    Len(heap.obj1) = Len(src) => heap.obj1 = __init__(src)

\* C6 witness: a full-length source that is out of order and holds two equal
\* items with different tags has been appended whole.
C6_Witness ==
    /\ Returned("append")
    /\ Len(src) = MaxLen
    /\ Len(heap.obj1) = Len(src)
    /\ ~Sorted(src)
    /\ \E i \in 1..Len(src), j \in 1..Len(src) :
          i < j /\ Equal(src[i], src[j]) /\ src[i].t > src[j].t

\* C7. copy() returns a list with the original's items, position by position,
\* and the two share nothing: a mutating call through one name leaves the list
\* of the other name as it was.
C7_CopyIndependent ==
    /\ Returned("copy") =>
         (heap[dup] = before.obj1 /\ heap.obj1 = before.obj1)
    /\ (pc = "returned" /\ dup # "None" /\ last.op \in Mutators) =>
         /\ last.name = "dup" => heap.obj1 = before.obj1
         /\ last.name = "orig" => heap[dup] = before[dup]

\* C7 witness: a call through dup has changed the copy of a list that is not
\* empty, and the two lists now differ.
C7_Witness ==
    /\ pc = "returned" /\ dup # "None" /\ last.op \in Mutators
    /\ last.name = "dup"
    /\ heap[dup] # before[dup]
    /\ heap.obj1 # << >>
    /\ heap[dup] # heap.obj1

\* C8. self[start:stop:step], for every start, stop and step other than 0,
\* raises nothing, returns the items that the range selects, in ascending
\* order, and leaves the list as it was.
C8_Slice ==
    (Returned("slice") /\ last.args.sl.step # Some(0)) =>
      LET s == Was
          sl == last.args.sl
          ind == SliceIndices(sl.start, sl.stop, sl.step, Len(s))
          sel == RangeSeq(ind[1], ind[2], ind[3])
          picked == [ j \in 1..Len(sel) |-> s[sel[j] + 1] ]
      IN /\ last.err = "none"
         /\ Sorted(last.ret.list)
         /\ SameItems(last.ret.list, picked)
         /\ heap = before

\* C9. c += items does what c.extend(items) does, and afterwards c is still
\* the list: the value the statement binds to c is the list itself.
C9_IAddIsExtend ==
    Returned("iadd") =>
      LET e == extend(Was, last.args.items)
      IN /\ last.err = e.err
         /\ Now = e.self
         /\ last.ret = RefV(Deref(last.name))

\* C10. Assignment with local repair: after self[i] = item with i in [-n, n),
\* and after self[start:stop:step] = [item] wherever the plain list accepts
\* the assignment, the list holds the items the plain list assignment leaves,
\* none lost and none twice, in ascending order.
C10_AssignRepairs ==
    /\ (Returned("set_at") /\ InRange(Was, last.args.i)) =>
         LET plain == ListSetItem(Was, last.args.i, last.args.item).self
         IN last.err = "none" /\ Sorted(Now) /\ SameItems(Now, plain)
    /\ (Returned("set_slice") /\ Len(last.args.items) = 1
          /\ ListSetSlice(Was, last.args.sl, last.args.items).err = "none") =>
         LET plain == ListSetSlice(Was, last.args.sl, last.args.items).self
         IN last.err = "none" /\ Sorted(Now) /\ SameItems(Now, plain)

\* ------------------------------------------- where the failing claims hold
\* Checked under Spec beside the claims above: each states the part of a
\* refuted claim that the code does satisfy.

\* Of C1: a sorted list stays sorted under every call but the assignment of
\* exactly one item to a slice.
SortedKeptOutsideSliceOfOne ==
    (pc = "returned" /\ Sorted(Was)
       /\ ~(last.op = "set_slice" /\ Len(last.args.items) = 1)) => Sorted(Now)

\* Of C2: a failing call other than an assignment to a slice and a *= by a
\* value that is not an integer changes nothing.
FailureOutsideSetSliceAndIMulChangesNothing ==
    (pc = "returned" /\ last.op \notin { "set_slice", "imul" })
      => C2_NoPartialMutation

\* Of C3: on a sorted list, with no stop given and 0 <= start <= len.
IndexOfWithDefaultStop ==
    (Returned("index") /\ Sorted(Was) /\ last.args.stop = None
       /\ last.args.start \in 0..Len(Was)) => C3_IndexOf

\* Of C4 and C5: on a sorted list.
CountOnSorted == (pc = "returned" /\ Sorted(Was)) => C4_Count
StabilityOnSorted == (pc = "returned" /\ Sorted(Was)) => C5_Stability

\* Of C8: for a positive step.
SliceWithPositiveStep ==
    (Returned("slice") /\ last.args.sl.step \notin { Some(i) : i \in -MaxStep..0 })
      => C8_Slice

\* Of C9: the list itself is left as extend leaves it.
IAddContentsAreExtends ==
    Returned("iadd") =>
      LET e == extend(Was, last.args.items)
      IN last.err = e.err /\ Now = e.self

\* Of C10: self[i] = item on a sorted list is the plain assignment followed
\* by a stable sort.
SetAtIsAssignThenSort ==
    (Returned("set_at") /\ Sorted(Was) /\ InRange(Was, last.args.i)) =>
      /\ last.err = "none"
      /\ Now = Sort(ListSetItem(Was, last.args.i, last.args.item).self)

====
